---- MODULE Spec2Model ----
(***************************************************************************)
(* The polling and state-reconciliation engine of FullIATestingPage.tsx:   *)
(* the persisted session, the polling effect and its interval timer, the   *)
(* poll callback with its two awaits (status fetch, log fetch), the toast  *)
(* queue with its expiry timers, and the start / stop / clear handlers.    *)
(*                                                                         *)
(* Scheduling: the page is single threaded.  Every action below is one     *)
(* run-to-completion step: an event handler, a timer callback, or the      *)
(* continuation of an await.  A state update that changes a dependency of  *)
(* the polling effect re-runs the effect (cleanup, then body) as part of   *)
(* the step that made the update.                                          *)
(***************************************************************************)
EXTENDS Integers, Sequences, FiniteSets, TLC

VARIABLES
    storage,              \* localStorage[SESSION_KEY]
    mounted,              \* the mount effect has run
    promptContent,        \* useState promptContent
    promptLoading,        \* useState promptLoading
    target,               \* useState target
    agentId,              \* useState agentId
    status,               \* useState status: <<>> (null) or <<snapshot>>
    isRunning,            \* useState isRunning
    logs,                 \* useState logs
    error,                \* useState error
    toasts,               \* useState toasts
    newFindingIds,        \* useState newFindingIds
    connectionLost,       \* useState connectionLost
    pollRef,              \* the live interval of the polling effect
    seenFindingIdsRef,    \* useRef
    prevPhaseRef,         \* useRef
    prevStatusRef,        \* useRef
    consecutiveErrorsRef, \* useRef
    newFindingTimerRef,   \* useRef: the handle of the latest highlight-decay
                          \* timeout, with the timeouts that are pending
    elapsedSeconds,       \* useState elapsedSeconds
    elapsedTimer,         \* the live interval of the elapsed-time effect
    clock,                \* environment: what Date.now() returns, in ms
    toastTimers,          \* pending toast expiry timeouts, oldest first
    inflight,             \* poll() invocations that have not returned, in call order
    startReqs,            \* autoPentest requests awaiting their response
    stopReqs,             \* stop requests awaiting their response
    cycles,               \* number of poll() invocations so far
    issued,               \* agent identifiers the remote has handed out
    remote,               \* environment: the snapshots the agent may report, and
                          \* the number of poll() invocations explored
    last,                 \* history: what the last step did
    sessionPolled,        \* history: a snapshot of the current session was applied
    notified,             \* history: finding ids notified in the current session
    scen                  \* history: progress of the worked scenario of the spec

vars == <<storage, mounted, promptContent, promptLoading, target, agentId,
          status, isRunning, logs, error, toasts, newFindingIds,
          connectionLost, pollRef, seenFindingIdsRef, prevPhaseRef,
          prevStatusRef, consecutiveErrorsRef, newFindingTimerRef,
          toastTimers, inflight, startReqs, stopReqs, cycles, issued, remote,
          last, elapsedSeconds, elapsedTimer, clock,
          sessionPolled, notified, scen>>

(***************************************************************************)
(* Program constants.                                                      *)
(***************************************************************************)
POLL_INTERVAL == 1500
POLL_INTERVAL_ERROR == 5000
TOAST_DURATION == 5000
MAX_TOASTS == 5
ErrorThreshold == 3
HighlightDuration == 3000
LogLimit == 300

(***************************************************************************)
(* Bounds of the model.                                                    *)
(***************************************************************************)
MaxCycles == 2
MaxInFlight == 2
MaxStarts == 1
MaxStops == 1
ScenarioCycles == 4
CadenceCycles == 6
CadenceInFlight == 3
StatusInFlight == 1
PollCycles == 2
MaxPushes == 7
MaxClock == 6000
ClockStep == 1500
HighlightCycles == 3
DoubleStarts == 2
MaxSeconds == 130

(***************************************************************************)
(* Values.                                                                 *)
(***************************************************************************)
Null == "null"
AgentIds == {"a1", "a2"}
Statuses == {"running", "paused", "completed", "stopped", "error"}
Terminal == {"completed", "stopped", "error"}
Phases == {"", "recon", "testing"}
Targets == {"", "t1"}
F1 == [id |-> "f1", severity |-> "high", title |-> "sqli"]
F2 == [id |-> "f2", severity |-> "low", title |-> "xss"]
F3 == [id |-> "f3", severity |-> "medium", title |-> "idor"]
\* the finding f1 as a later snapshot reports it, with changed content
F1b == [id |-> "f1", severity |-> "critical", title |-> "sqli in login"]
FindingLists == {<<>>, <<F1>>, <<F2>>, <<F1, F2>>}
Snapshots == [status : Statuses, phase : Phases, findings : FindingLists]
LogWindows == {<<>>, <<"l1">>}
\* rejections of autoPentest: HTTP status (0: no response), the body's detail
\* and the error's message; a missing field reads as undefined
StartErrors ==
    {[status |-> 429, detail |-> "rate limited", message |-> "429"],
     [status |-> 429, detail |-> Null, message |-> "429"],
     [status |-> 500, detail |-> "detail", message |-> "500"],
     [status |-> 0, detail |-> Null, message |-> Null]}
\* what the agent reports varies along one dimension per behaviour
Profiles ==
    {{[status |-> s, phase |-> "recon", findings |-> <<>>] : s \in Statuses},
     {[status |-> "running", phase |-> ph, findings |-> <<>>] : ph \in Phases},
     {[status |-> "running", phase |-> "recon", findings |-> fl] : fl \in FindingLists}}

Other == [op |-> "other"]

\* the worked scenario of the spec: three successive snapshots of one run
S1 == [status |-> "running", phase |-> "recon", findings |-> <<>>]
S2 == [status |-> "running", phase |-> "testing", findings |-> <<F1>>]
S3 == [status |-> "completed", phase |-> "testing", findings |-> <<F1>>]
Scenario == <<S1, S2, S3>>
ScenOff == [step |-> 0, out |-> <<>>, on |-> FALSE]

StoredValues ==
    {[kind |-> "absent"], [kind |-> "malformed"]}
    \cup {[kind |-> "record", agentId |-> "a1", target |-> "t1",
           startedAt |-> "iso", status |-> s] : s \in {"running", "completed"}}

\* a stored value that parses as JSON but lacks fields of the session record:
\* a missing field reads as undefined
PartialValues ==
    {[kind |-> "record", agentId |-> "a1", target |-> Null,
      startedAt |-> Null, status |-> Null],
     [kind |-> "record", agentId |-> Null, target |-> "t1",
      startedAt |-> "iso", status |-> "running"]}

WellFormed(v) ==
    /\ v.kind = "record"
    /\ v.agentId # Null /\ v.target # Null
    /\ v.startedAt # Null /\ v.status # Null

(***************************************************************************)
(* Helpers.                                                                *)
(***************************************************************************)
Falsy(v) == v = Null \/ v = ""

Trim(t) == IF t = " " THEN "" ELSE t

Upper(sev) ==
    CASE sev = "critical" -> "CRITICAL"
      [] sev = "high" -> "HIGH"
      [] sev = "medium" -> "MEDIUM"
      [] sev = "low" -> "LOW"
      [] OTHER -> "INFO"

Range(q) == {q[i] : i \in 1..Len(q)}

\* prev.slice(-k): the last k elements
SliceLast(q, k) == IF Len(q) <= k THEN q ELSE SubSeq(q, Len(q) - k + 1, Len(q))

\* a filter that also drops every toast older than the named one
WithoutId_DropsOlder(q, id) == SelectSeq(q, LAMBDA t : t.id > id)

\* prev.filter(t => t.id !== id)
WithoutId(q, id) == SelectSeq(q, LAMBDA t : t.id # id)

\* `${Date.now()}-${Math.random()...}`: an identifier no toast in the queue
\* and no pending expiry timer carries
ToastIdsInUse(q, tm) == {q[i].id : i \in 1..Len(q)} \cup Range(tm)

FreshToastId(q, tm) ==
    LET used == ToastIdsInUse(q, tm) \cup {0}
    IN  1 + CHOOSE n \in used : \A m \in used : m <= n

\* addToast keeping the last MAX_TOASTS entries before it appends
AddToast_KeepsMaxBeforeAppend(st, message, severity) ==
    LET id == FreshToastId(st.q, st.tm)
    IN  [q  |-> Append(SliceLast(st.q, MAX_TOASTS),
                       [id |-> id, message |-> message, severity |-> severity]),
         tm |-> Append(st.tm, id)]

\* addToast with one shared expiry timeout that every push restarts
AddToast_SharedTimer(st, message, severity) ==
    LET id == FreshToastId(st.q, st.tm)
    IN  [q  |-> Append(SliceLast(st.q, MAX_TOASTS - 1),
                       [id |-> id, message |-> message, severity |-> severity]),
         tm |-> <<id>>]

\* addToast on the pair (queue, pending expiry timers)
AddToast(st, message, severity) ==
    LET id == FreshToastId(st.q, st.tm)
    IN  [q  |-> Append(SliceLast(st.q, MAX_TOASTS - 1),
                       [id |-> id, message |-> message, severity |-> severity]),
         tm |-> Append(st.tm, id)]

\* pushes that each update the queue the render saw instead of the queue the
\* previous push left
RECURSIVE AddToasts_FromRenderedQueue(_, _)
AddToasts_FromRenderedQueue(st, items) ==
    IF items = <<>> THEN st
    ELSE LET one == AddToast(st, Head(items).message, Head(items).severity)
         IN  IF Tail(items) = <<>> THEN one
             ELSE AddToasts_FromRenderedQueue([q |-> st.q, tm |-> one.tm],
                                              Tail(items))

\* successive addToast calls of one handler: each setToasts updater receives
\* the queue the previous one returned
RECURSIVE AddToasts(_, _)
AddToasts(st, items) ==
    IF items = <<>> THEN st
    ELSE AddToasts(AddToast(st, Head(items).message, Head(items).severity),
                   Tail(items))

Item(message, severity) == [message |-> message, severity |-> severity]

(***************************************************************************)
(* The poll callback's detection rules, on a fetched snapshot s.           *)
(***************************************************************************)
\* a detection that announces every phase that differs from the marker, set
\* or not
PhaseToasts_AnyDifference(prevPhase, s) ==
    IF ~Falsy(s.phase) /\ s.phase # prevPhase
    THEN <<Item(<<"Phase: ", s.phase>>, "info")>>
    ELSE <<>>

\* Phase change detection
PhaseToasts(prevPhase, s) ==
    IF ~Falsy(prevPhase) /\ ~Falsy(s.phase) /\ s.phase # prevPhase
    THEN <<Item(<<"Phase: ", s.phase>>, "info")>>
    ELSE <<>>

\* a marker that keeps the last non-empty phase over a snapshot without one
NextPrevPhase_KeepsMarker(s) == IF Falsy(s.phase) THEN prevPhaseRef ELSE s.phase

\* prevPhaseRef.current = s.phase || null
NextPrevPhase(s) == IF Falsy(s.phase) THEN Null ELSE s.phase

\* Status transition detection that does not look at the previous status
StatusToasts_AnyPrevious(prevStatus, s) ==
    IF s.status = "completed"
    THEN <<Item(<<"Pentest complete! ", ToString(Len(s.findings)), " findings">>,
                "completed")>>
    ELSE IF s.status = "error"
    THEN <<Item(<<"Pentest failed">>, "error")>>
    ELSE IF s.status = "stopped"
    THEN <<Item(<<"Pentest stopped">>, "info")>>
    ELSE <<>>

\* Status transition detection
StatusToasts(prevStatus, s) ==
    IF prevStatus = "running" /\ s.status = "completed"
    THEN <<Item(<<"Pentest complete! ", ToString(Len(s.findings)), " findings">>,
                "completed")>>
    ELSE IF prevStatus = "running" /\ s.status = "error"
    THEN <<Item(<<"Pentest failed">>, "error")>>
    ELSE IF prevStatus = "running" /\ s.status = "stopped"
    THEN <<Item(<<"Pentest stopped">>, "info")>>
    ELSE <<>>

\* new Set(findings.map(f => f.id)), in insertion order
RECURSIVE IdSeq(_)
IdSeq(fs) ==
    IF fs = <<>> THEN <<>>
    ELSE LET rest == IdSeq(SubSeq(fs, 1, Len(fs) - 1))
             id == fs[Len(fs)].id
         IN  IF id \in Range(rest) THEN rest ELSE Append(rest, id)

CurrentIds(s) == Range(IdSeq(s.findings))

\* a detection that also takes a finding whose content differs from the
\* displayed one for new
NewIds_ByContent(seen, s) ==
    IF Cardinality(seen) > 0
    THEN SelectSeq(IdSeq(s.findings),
                   LAMBDA id :
                      \/ id \notin seen
                      \/ status = <<>>
                      \/ \E i \in 1..Len(s.findings) :
                            /\ s.findings[i].id = id
                            /\ s.findings[i] \notin Range(status[1].findings))
    ELSE <<>>

\* New finding detection
NewIds(seen, s) ==
    IF Cardinality(seen) > 0
    THEN SelectSeq(IdSeq(s.findings), LAMBDA id : id \notin seen)
    ELSE <<>>

\* s.findings.find(x => x.id === id)
FindFinding(s, id) ==
    s.findings[CHOOSE i \in 1..Len(s.findings) :
                  /\ s.findings[i].id = id
                  /\ \A j \in 1..(i - 1) : s.findings[j].id # id]

\* a loop that announces the first new identifier only
FindingToasts_FirstOnly(newIds, s) ==
    [i \in 1..(IF Len(newIds) > 0 THEN 1 ELSE 0) |->
        LET f == FindFinding(s, newIds[i])
        IN  Item(<<Upper(f.severity), ": ", f.title>>, f.severity)]

\* newIds.forEach: one addToast per new identifier
FindingToasts(newIds, s) ==
    [i \in 1..Len(newIds) |->
        LET f == FindFinding(s, newIds[i])
        IN  Item(<<Upper(f.severity), ": ", f.title>>, f.severity)]

\* status?.rejected_findings || []
RejectedFindings(s) ==
    IF "rejected_findings" \in DOMAIN s THEN s.rejected_findings ELSE <<>>

\* a seen set that also takes in the rejected findings
NextSeen_WithRejected(s) ==
    CurrentIds(s) \cup {RejectedFindings(s)[i].id :
                           i \in 1..Len(RejectedFindings(s))}

\* seenFindingIdsRef.current = currentIds
NextSeen(s) == CurrentIds(s)

\* a run flag that takes a paused run for inactive
Running_OnlyRunning(s) == s.status = "running"

\* s.status === 'running' || s.status === 'paused'
Running(s) == s.status = "running" \/ s.status = "paused"

\* a persist step that writes a status-only record even when none is stored
PersistStatus_WritesWhenAbsent(st, s) ==
    IF st.kind = "record" THEN [st EXCEPT !.status = s.status]
    ELSE [kind |-> "record", agentId |-> Null, target |-> Null,
          startedAt |-> Null, status |-> s.status]

\* Persist session
PersistStatus(st, s) ==
    IF st.kind = "record" THEN [st EXCEPT !.status = s.status] ELSE st

(***************************************************************************)
(* The highlight-decay timeout of the poll callback.                       *)
(***************************************************************************)
\* timeout handles are positive integers; 0 stands for the ref's initial null
NoHighlightTimer == [current |-> 0, pending |-> {}]

\* a handle no pending timeout carries and the ref does not hold
FreshHandle(ref) ==
    CHOOSE h \in 1..(Cardinality(ref.pending) + 2) :
        /\ h # ref.current
        /\ \A tm \in ref.pending : tm.id # h
        /\ \A g \in 1..(h - 1) :
              g = ref.current \/ \E tm \in ref.pending : tm.id = g

\* a new timeout set without clearing the one the ref holds
ArmHighlightTimer_NoClear(ref) ==
    LET h == FreshHandle(ref)
    IN  [current |-> h,
         pending |-> ref.pending
                        \cup {[id |-> h, due |-> clock + HighlightDuration]}]

\* if (ref.current) clearTimeout(ref.current); ref.current = setTimeout(...)
ArmHighlightTimer(ref) ==
    LET h == FreshHandle(ref)
    IN  [current |-> h,
         pending |-> {tm \in ref.pending : tm.id # ref.current}
                        \cup {[id |-> h, due |-> clock + HighlightDuration]}]

(***************************************************************************)
(* The polling effect.                                                     *)
(***************************************************************************)
NoTimer == [armed |-> FALSE]

Cadence(errs) ==
    IF errs >= ErrorThreshold THEN POLL_INTERVAL_ERROR ELSE POLL_INTERVAL

\* poll(): the callback runs up to its first await
NewPoll(aid, cl) == [agentId |-> aid, connectionLost |-> cl, stage |-> "status"]

CanPoll(infl) == cycles < remote.cycles /\ Len(infl) < remote.inflight

\* a poll() invocation passes an await or returns
Advance(infl, i) == [infl EXCEPT ![i].stage = "logs"]

Remove(infl, i) == SubSeq(infl, 1, i - 1) \o SubSeq(infl, i + 1, Len(infl))

\* an effect without cleanup: the previous interval keeps running
RunPollingEffect_NoCleanup(aid, cl, errs, infl) ==
    IF Falsy(aid)
    THEN /\ pollRef' = pollRef
         /\ inflight' = infl
         /\ cycles' = cycles
    ELSE /\ CanPoll(infl)
         /\ pollRef' = [armed |-> TRUE, interval |-> Cadence(errs),
                        agentId |-> aid, connectionLost |-> cl]
         /\ inflight' = Append(infl, NewPoll(aid, cl))
         /\ cycles' = cycles + 1

\* an effect body that arms the timer and leaves the first fetch to its tick
RunPollingEffect_DefersFirstPoll(aid, cl, errs, infl) ==
    IF Falsy(aid)
    THEN /\ pollRef' = NoTimer
         /\ inflight' = infl
         /\ cycles' = cycles
    ELSE /\ pollRef' = [armed |-> TRUE, interval |-> Cadence(errs),
                        agentId |-> aid, connectionLost |-> cl]
         /\ inflight' = infl
         /\ cycles' = cycles

\* cleanup of the previous run, then the body, with the state the render saw
RunPollingEffect(aid, cl, errs, infl) ==
    IF Falsy(aid)
    THEN /\ pollRef' = NoTimer
         /\ inflight' = infl
         /\ cycles' = cycles
    ELSE /\ CanPoll(infl)
         /\ pollRef' = [armed |-> TRUE, interval |-> Cadence(errs),
                        agentId |-> aid, connectionLost |-> cl]
         /\ inflight' = Append(infl, NewPoll(aid, cl))
         /\ cycles' = cycles + 1

\* the effect runs when one of its dependencies [agentId, connectionLost] changed
PollingEffect(aid, cl, errs, infl) ==
    IF aid = agentId /\ cl = connectionLost
    THEN /\ pollRef' = pollRef
         /\ inflight' = infl
         /\ cycles' = cycles
    ELSE RunPollingEffect(aid, cl, errs, infl)

(***************************************************************************)
(* The elapsed-time effect.                                                *)
(***************************************************************************)
\* the timestamps a snapshot may carry, and new Date(ts).getTime() of each
TimeStamps ==
    {"1970-01-01T00:00:00.500Z", "1970-01-01T00:02:10.500Z"}

GetTime(ts) ==
    CASE ts = "1970-01-01T00:00:00.500Z" -> 500
      [] ts = "1970-01-01T00:02:10.500Z" -> 130500

\* status?.started_at and status?.completed_at: undefined when status is null
\* or the snapshot lacks the field
StartedAt(st) ==
    IF st = <<>> THEN Null
    ELSE IF "started_at" \in DOMAIN st[1] THEN st[1].started_at ELSE Null

CompletedAt(st) ==
    IF st = <<>> THEN Null
    ELSE IF "completed_at" \in DOMAIN st[1] THEN st[1].completed_at ELSE Null

\* String(n).padStart(2, '0')
PadStart2(n) ==
    IF Len(ToString(n)) < 2 THEN "0" \o ToString(n) ELSE ToString(n)

\* a format that leaves single digits unpadded
formatElapsed_Unpadded(totalSeconds) ==
    LET h == totalSeconds \div 3600
        m == (totalSeconds % 3600) \div 60
        s == totalSeconds % 60
    IN  ToString(h) \o ":" \o ToString(m) \o ":" \o ToString(s)

\* formatElapsed, for totalSeconds >= 0
formatElapsed(totalSeconds) ==
    LET h == totalSeconds \div 3600
        m == (totalSeconds % 3600) \div 60
        s == totalSeconds % 60
    IN  PadStart2(h) \o ":" \o PadStart2(m) \o ":" \o PadStart2(s)

\* Math.floor(ms / 1000)
FloorSeconds(ms) == ms \div 1000

Max(a, b) == IF a >= b THEN a ELSE b

\* the running branch computes the seconds without clamping them
Tick(startTime) == FloorSeconds(clock - startTime)

\* cleanup of the previous run, then the body; cur is elapsedSeconds as the
\* handler left it
RunElapsedEffect(st, run, cur) ==
    IF Falsy(StartedAt(st))
    THEN /\ elapsedSeconds' = cur
         /\ elapsedTimer' = NoTimer
    ELSE LET startTime == GetTime(StartedAt(st))
         IN  IF run
             THEN /\ elapsedSeconds' = Tick(startTime)
                  /\ elapsedTimer' = [armed |-> TRUE, startTime |-> startTime]
             ELSE LET endTime == IF Falsy(CompletedAt(st)) THEN clock
                                 ELSE GetTime(CompletedAt(st))
                  IN  /\ elapsedSeconds' =
                             Max(0, FloorSeconds(endTime - startTime))
                      /\ elapsedTimer' = NoTimer

\* the effect runs when one of its dependencies
\* [isRunning, status?.started_at, status?.completed_at] changed
ElapsedEffect(st, run, cur) ==
    IF /\ run = isRunning
       /\ StartedAt(st) = StartedAt(status)
       /\ CompletedAt(st) = CompletedAt(status)
    THEN /\ elapsedSeconds' = cur
         /\ elapsedTimer' = elapsedTimer
    ELSE RunElapsedEffect(st, run, cur)

(***************************************************************************)
(* Initial state: the component has rendered once, no effect has run yet.  *)
(***************************************************************************)
InitFrom(stored, envs, secs) ==
    /\ storage \in stored
    /\ mounted = FALSE
    /\ promptContent = Null
    /\ promptLoading = TRUE
    /\ target = ""
    /\ agentId = Null
    /\ status = <<>>
    /\ isRunning = FALSE
    /\ logs = <<>>
    /\ error = Null
    /\ toasts = <<>>
    /\ newFindingIds = {}
    /\ connectionLost = FALSE
    /\ pollRef = NoTimer
    /\ seenFindingIdsRef = {}
    /\ prevPhaseRef = Null
    /\ prevStatusRef = Null
    /\ consecutiveErrorsRef = 0
    /\ newFindingTimerRef = NoHighlightTimer
    /\ elapsedSeconds \in secs
    /\ elapsedTimer = NoTimer
    /\ clock = 0
    /\ toastTimers = <<>>
    /\ inflight = <<>>
    /\ startReqs = {}
    /\ stopReqs = {}
    /\ cycles = 0
    /\ issued = IF storage.kind = "record" THEN {storage.agentId} ELSE {}
    /\ remote \in envs
    /\ last = Other
    /\ sessionPolled = FALSE
    /\ notified = {}
    /\ scen = ScenOff

InitWith(stored, envs) == InitFrom(stored, envs, {0})

Init ==
    InitWith(StoredValues,
             {[snaps |-> p, cycles |-> MaxCycles, inflight |-> MaxInFlight] :
                 p \in Profiles})

(***************************************************************************)
(* Mount: load prompt, restore session.                                    *)
(***************************************************************************)
Mount ==
    /\ ~mounted
    /\ mounted' = TRUE
    /\ IF storage.kind = "record"
       THEN /\ agentId' = storage.agentId
            /\ target' = IF Falsy(storage.target) THEN "" ELSE storage.target
            /\ isRunning' = (storage.status = "running")
       ELSE UNCHANGED <<agentId, target, isRunning>>
    /\ PollingEffect(agentId', connectionLost, consecutiveErrorsRef, inflight)
    /\ last' = Other
    /\ ElapsedEffect(status, isRunning', elapsedSeconds)
    /\ UNCHANGED <<remote, clock, storage, promptContent, promptLoading, status, logs, error,
                   toasts, newFindingIds, connectionLost, seenFindingIdsRef,
                   prevPhaseRef, prevStatusRef, consecutiveErrorsRef,
                   newFindingTimerRef, toastTimers, startReqs, stopReqs, issued,
                   sessionPolled, notified, scen>>

PromptLoaded ==
    /\ mounted /\ promptLoading
    /\ promptContent' = "prompt"
    /\ promptLoading' = FALSE
    /\ last' = Other
    /\ UNCHANGED <<remote, clock, elapsedSeconds, elapsedTimer, storage, mounted, target, agentId, status, isRunning, logs,
                   error, toasts, newFindingIds, connectionLost, pollRef,
                   seenFindingIdsRef, prevPhaseRef, prevStatusRef,
                   consecutiveErrorsRef, newFindingTimerRef, toastTimers,
                   inflight, startReqs, stopReqs, cycles, issued,
                   sessionPolled, notified, scen>>

PromptFailed ==
    /\ mounted /\ promptLoading
    /\ promptLoading' = FALSE
    /\ last' = Other
    /\ UNCHANGED <<remote, clock, elapsedSeconds, elapsedTimer, storage, mounted, promptContent, target, agentId, status,
                   isRunning, logs, error, toasts, newFindingIds, connectionLost,
                   pollRef, seenFindingIdsRef, prevPhaseRef, prevStatusRef,
                   consecutiveErrorsRef, newFindingTimerRef, toastTimers,
                   inflight, startReqs, stopReqs, cycles, issued,
                   sessionPolled, notified, scen>>

\* the target input of the start form, shown while there is no agentId
SetTarget(t) ==
    /\ mounted /\ Falsy(agentId) /\ t # target
    /\ target' = t
    /\ last' = Other
    /\ UNCHANGED <<remote, clock, elapsedSeconds, elapsedTimer, storage, mounted, promptContent, promptLoading, agentId,
                   status, isRunning, logs, error, toasts, newFindingIds,
                   connectionLost, pollRef, seenFindingIdsRef, prevPhaseRef,
                   prevStatusRef, consecutiveErrorsRef, newFindingTimerRef,
                   toastTimers, inflight, startReqs, stopReqs, cycles, issued,
                   sessionPolled, notified, scen>>

(***************************************************************************)
(* handleStart: up to the await of autoPentest, and its two continuations. *)
(***************************************************************************)
\* a start form that stays available while a session exists
\* how many start-run requests the environment lets be pending at once
StartLimit == IF "starts" \in DOMAIN remote THEN remote.starts ELSE MaxStarts

StartButtonEnabled_ShownWithSession ==
    /\ mounted
    /\ ~(Falsy(Trim(target)) \/ Falsy(promptContent) \/ promptLoading)

StartButtonEnabled ==
    /\ mounted
    /\ Falsy(agentId)
    /\ ~(Falsy(Trim(target)) \/ Falsy(promptContent) \/ promptLoading)

HandleStart ==
    /\ StartButtonEnabled
    /\ Cardinality(startReqs) < StartLimit
    /\ ~(Falsy(Trim(target)) \/ Falsy(promptContent))
    /\ error' = Null
    /\ logs' = <<>>
    /\ seenFindingIdsRef' = {}
    /\ prevPhaseRef' = Null
    /\ prevStatusRef' = Null
    /\ consecutiveErrorsRef' = 0
    /\ startReqs' = startReqs \cup
          {[k |-> CHOOSE k \in 1..StartLimit :
                      /\ \A r \in startReqs : r.k # k
                      /\ \A j \in 1..(k - 1) : \E r \in startReqs : r.k = j,
            target |-> Trim(target)]}
    /\ last' = Other
    /\ UNCHANGED <<remote, clock, elapsedSeconds, elapsedTimer, storage, mounted, promptContent,
                   promptLoading, target,
                   agentId, status, isRunning, toasts, newFindingIds,
                   connectionLost, pollRef, newFindingTimerRef, toastTimers,
                   inflight, stopReqs, cycles, issued, sessionPolled, notified, scen>>

StartResolved(r, id) ==
    /\ r \in startReqs
    /\ id \in AgentIds \ issued
    /\ startReqs' = startReqs \ {r}
    /\ issued' = issued \cup {id}
    /\ agentId' = id
    /\ isRunning' = TRUE
    /\ LET st == AddToast([q |-> toasts, tm |-> toastTimers],
                          <<"Full LLM Pentest started">>, "info")
       IN  toasts' = st.q /\ toastTimers' = st.tm
    /\ storage' = [kind |-> "record", agentId |-> id, target |-> r.target,
                   startedAt |-> "iso", status |-> "running"]
    /\ PollingEffect(id, connectionLost, consecutiveErrorsRef, inflight)
    /\ last' = Other
    /\ sessionPolled' = FALSE
    /\ notified' = {}
    /\ scen' = [step |-> 0, out |-> <<>>, on |-> TRUE]
    /\ ElapsedEffect(status, TRUE, elapsedSeconds)
    /\ UNCHANGED <<remote, clock, mounted, promptContent, promptLoading, target, status,
                   logs, error, newFindingIds, connectionLost, seenFindingIdsRef,
                   prevPhaseRef, prevStatusRef, consecutiveErrorsRef,
                   newFindingTimerRef, stopReqs>>

\* the text handleStart's catch block passes to setError
StartErrorText(e) ==
    IF e.status = 429 THEN e.detail
    ELSE IF ~Falsy(e.detail) THEN e.detail
    ELSE IF ~Falsy(e.message) THEN e.message
    ELSE "Failed to start FULL AI pentest"

StartRejected(r, e) ==
    /\ r \in startReqs
    /\ startReqs' = startReqs \ {r}
    /\ error' = StartErrorText(e)
    /\ last' = Other
    /\ UNCHANGED <<remote, clock, elapsedSeconds, elapsedTimer, storage, mounted, promptContent,
                   promptLoading, target,
                   agentId, status, isRunning, logs, toasts, newFindingIds,
                   connectionLost, pollRef, seenFindingIdsRef, prevPhaseRef,
                   prevStatusRef, consecutiveErrorsRef, newFindingTimerRef,
                   toastTimers, inflight, stopReqs, cycles, issued,
                   sessionPolled, notified, scen>>

(***************************************************************************)
(* handleStop: up to the await of stop, and its two continuations.         *)
(***************************************************************************)
HandleStop ==
    /\ ~Falsy(agentId) /\ isRunning
    /\ Cardinality(stopReqs \cup {agentId}) <= MaxStops
    /\ stopReqs' = stopReqs \cup {agentId}
    /\ last' = Other
    /\ UNCHANGED <<remote, clock, elapsedSeconds, elapsedTimer, storage, mounted, promptContent,
                   promptLoading, target,
                   agentId, status, isRunning, logs, error, toasts,
                   newFindingIds, connectionLost, pollRef, seenFindingIdsRef,
                   prevPhaseRef, prevStatusRef, consecutiveErrorsRef,
                   newFindingTimerRef, toastTimers, inflight, startReqs, cycles,
                   issued, sessionPolled, notified, scen>>

StopResolved(a) ==
    /\ a \in stopReqs
    /\ stopReqs' = stopReqs \ {a}
    /\ isRunning' = FALSE
    /\ last' = [op |-> "StopResolved", agent |-> a]
    /\ ElapsedEffect(status, FALSE, elapsedSeconds)
    /\ UNCHANGED <<remote, clock, storage, mounted, promptContent, promptLoading, target,
                   agentId, status, logs, error, toasts, newFindingIds,
                   connectionLost, pollRef, seenFindingIdsRef, prevPhaseRef,
                   prevStatusRef, consecutiveErrorsRef, newFindingTimerRef,
                   toastTimers, inflight, startReqs, cycles, issued,
                   sessionPolled, notified, scen>>

StopRejected(a) ==
    /\ a \in stopReqs
    /\ stopReqs' = stopReqs \ {a}
    /\ last' = [op |-> "StopRejected", agent |-> a]
    /\ UNCHANGED <<remote, clock, elapsedSeconds, elapsedTimer, storage, mounted, promptContent,
                   promptLoading, target,
                   agentId, status, isRunning, logs, error, toasts,
                   newFindingIds, connectionLost, pollRef, seenFindingIdsRef,
                   prevPhaseRef, prevStatusRef, consecutiveErrorsRef,
                   newFindingTimerRef, toastTimers, inflight, startReqs, cycles,
                   issued, sessionPolled, notified, scen>>

(***************************************************************************)
(* handleClear ("New Test" / "Clear", shown while not running).            *)
(***************************************************************************)
HandleClear ==
    /\ ~Falsy(agentId) /\ ~isRunning
    /\ agentId' = Null
    /\ status' = <<>>
    /\ isRunning' = FALSE
    /\ logs' = <<>>
    /\ error' = Null
    /\ newFindingIds' = {}
    /\ connectionLost' = FALSE
    /\ seenFindingIdsRef' = {}
    /\ prevPhaseRef' = Null
    /\ prevStatusRef' = Null
    /\ storage' = [kind |-> "absent"]
    /\ PollingEffect(Null, FALSE, consecutiveErrorsRef, inflight)
    /\ last' = Other
    /\ sessionPolled' = FALSE
    /\ notified' = {}
    /\ scen' = ScenOff
    /\ ElapsedEffect(<<>>, FALSE, 0)
    /\ UNCHANGED <<remote, clock, mounted, promptContent, promptLoading, target, toasts,
                   consecutiveErrorsRef, newFindingTimerRef, toastTimers,
                   startReqs, stopReqs, issued>>

(***************************************************************************)
(* The poll callback.  A poll() invocation c carries the agentId and the   *)
(* connectionLost value of the render whose effect created it.             *)
(***************************************************************************)
\* the interval fires: poll() runs up to its first await
TimerTick ==
    /\ pollRef.armed
    /\ CanPoll(inflight)
    /\ inflight' = Append(inflight, NewPoll(pollRef.agentId, pollRef.connectionLost))
    /\ cycles' = cycles + 1
    /\ last' = Other
    /\ scen' = IF scen.on /\ scen.step = 3 /\ pollRef.agentId = agentId
               THEN [scen EXCEPT !.step = 4] ELSE scen
    /\ UNCHANGED <<remote, clock, elapsedSeconds, elapsedTimer, storage, mounted, promptContent,
                   promptLoading, target,
                   agentId, status, isRunning, logs, error, toasts,
                   newFindingIds, connectionLost, pollRef, seenFindingIdsRef,
                   prevPhaseRef, prevStatusRef, consecutiveErrorsRef,
                   newFindingTimerRef, toastTimers, startReqs, stopReqs, issued,
                   sessionPolled, notified>>

\* the toasts one successful status fetch pushes, in push order
PollToasts(prevPhase, prevStatus, seen, s) ==
    PhaseToasts(prevPhase, s) \o StatusToasts(prevStatus, s)
        \o FindingToasts(NewIds(seen, s), s)

\* getStatus resolved with snapshot s: the try block, then getLogs is issued
StatusFetched(i, s) ==
    /\ i \in 1..Len(inflight) /\ inflight[i].stage = "status"
    /\ consecutiveErrorsRef' = 0
    /\ connectionLost' = IF inflight[i].connectionLost THEN FALSE ELSE connectionLost
    /\ status' = <<s>>
    /\ isRunning' = Running(s)
    /\ storage' = PersistStatus(storage, s)
    /\ prevPhaseRef' = NextPrevPhase(s)
    /\ prevStatusRef' = s.status
    /\ LET items == PollToasts(prevPhaseRef, prevStatusRef, seenFindingIdsRef, s)
           st == AddToasts([q |-> toasts, tm |-> toastTimers], items)
           newIds == NewIds(seenFindingIdsRef, s)
       IN  /\ toasts' = st.q
           /\ toastTimers' = st.tm
           /\ IF Len(newIds) > 0
              THEN /\ newFindingIds' = Range(newIds)
                   /\ newFindingTimerRef' = ArmHighlightTimer(newFindingTimerRef)
              ELSE UNCHANGED <<newFindingIds, newFindingTimerRef>>
           /\ last' = [op |-> "StatusFetched", agent |-> inflight[i].agentId,
                       current |-> agentId, prevPhase |-> prevPhaseRef,
                       prevStatus |-> prevStatusRef, seen |-> seenFindingIdsRef,
                       pushed |-> items, first |-> ~sessionPolled,
                       shown |-> IF status = <<>> THEN <<>>
                                 ELSE status[1].findings,
                       timer |-> newFindingTimerRef,
                       wasRunning |-> isRunning,
                       renotified |-> Range(newIds) \cap notified]
           /\ notified' = IF inflight[i].agentId = agentId
                          THEN notified \cup Range(newIds) ELSE notified
           /\ scen' = IF scen.on /\ scen.step >= 3 THEN scen
                      ELSE IF /\ scen.on /\ inflight[i].agentId = agentId
                              /\ s = Scenario[scen.step + 1]
                      THEN [scen EXCEPT !.step = @ + 1, !.out = Append(@, items)]
                      ELSE ScenOff
    /\ seenFindingIdsRef' = NextSeen(s)
    /\ sessionPolled' = (sessionPolled \/ inflight[i].agentId = agentId)
    /\ PollingEffect(agentId, connectionLost', 0, Advance(inflight, i))
    /\ ElapsedEffect(<<s>>, Running(s), elapsedSeconds)
    /\ UNCHANGED <<remote, clock, mounted, promptContent, promptLoading, target,
                   agentId, logs, error, startReqs, stopReqs, issued>>

\* a catch block that also forgets the previous phase and status
StatusFailed_ForgetsMarkers(i) ==
    /\ i \in 1..Len(inflight) /\ inflight[i].stage = "status"
    /\ consecutiveErrorsRef' = consecutiveErrorsRef + 1
    /\ connectionLost' = IF consecutiveErrorsRef' >= ErrorThreshold
                         THEN TRUE ELSE connectionLost
    /\ PollingEffect(agentId, connectionLost', consecutiveErrorsRef',
                     Advance(inflight, i))
    /\ last' = Other
    /\ scen' = IF scen.on /\ scen.step >= 3 THEN scen ELSE ScenOff
    /\ prevPhaseRef' = Null
    /\ prevStatusRef' = Null
    /\ UNCHANGED <<remote, clock, elapsedSeconds, elapsedTimer, storage, mounted, promptContent,
                   promptLoading, target,
                   agentId, status, isRunning, logs, error, toasts,
                   newFindingIds, seenFindingIdsRef,
                   newFindingTimerRef, toastTimers, startReqs, stopReqs, issued,
                   sessionPolled, notified>>

\* getStatus rejected: the catch block, then getLogs is issued
StatusFailed(i) ==
    /\ i \in 1..Len(inflight) /\ inflight[i].stage = "status"
    /\ consecutiveErrorsRef' = consecutiveErrorsRef + 1
    /\ connectionLost' = IF consecutiveErrorsRef' >= ErrorThreshold
                         THEN TRUE ELSE connectionLost
    /\ PollingEffect(agentId, connectionLost', consecutiveErrorsRef',
                     Advance(inflight, i))
    /\ last' = Other
    /\ scen' = IF scen.on /\ scen.step >= 3 THEN scen ELSE ScenOff
    /\ UNCHANGED <<remote, clock, elapsedSeconds, elapsedTimer, storage, mounted, promptContent,
                   promptLoading, target,
                   agentId, status, isRunning, logs, error, toasts,
                   newFindingIds, seenFindingIdsRef, prevPhaseRef, prevStatusRef,
                   newFindingTimerRef, toastTimers, startReqs, stopReqs, issued,
                   sessionPolled, notified>>

\* getLogs resolved with window w: setLogs, poll() returns
LogsFetched(i, w) ==
    /\ i \in 1..Len(inflight) /\ inflight[i].stage = "logs"
    /\ logs' = w
    /\ inflight' = Remove(inflight, i)
    /\ last' = Other
    /\ UNCHANGED <<remote, clock, elapsedSeconds, elapsedTimer, storage, mounted, promptContent,
                   promptLoading, target,
                   agentId, status, isRunning, error, toasts, newFindingIds,
                   connectionLost, pollRef, seenFindingIdsRef, prevPhaseRef,
                   prevStatusRef, consecutiveErrorsRef, newFindingTimerRef,
                   toastTimers, startReqs, stopReqs, cycles, issued,
                   sessionPolled, notified, scen>>

\* a log-fetch catch that empties the held log list
LogsFailed_ClearsLogs(i) ==
    /\ i \in 1..Len(inflight) /\ inflight[i].stage = "logs"
    /\ inflight' = Remove(inflight, i)
    /\ logs' = <<>>
    /\ last' = Other
    /\ UNCHANGED <<remote, clock, elapsedSeconds, elapsedTimer, storage, mounted, promptContent,
                   promptLoading, target,
                   agentId, status, isRunning, error, toasts,
                   newFindingIds, connectionLost, pollRef, seenFindingIdsRef,
                   prevPhaseRef, prevStatusRef, consecutiveErrorsRef,
                   newFindingTimerRef, toastTimers, startReqs, stopReqs, cycles,
                   issued, sessionPolled, notified, scen>>

\* getLogs rejected: ignored, poll() returns
LogsFailed(i) ==
    /\ i \in 1..Len(inflight) /\ inflight[i].stage = "logs"
    /\ inflight' = Remove(inflight, i)
    /\ last' = Other
    /\ UNCHANGED <<remote, clock, elapsedSeconds, elapsedTimer, storage, mounted, promptContent,
                   promptLoading, target,
                   agentId, status, isRunning, logs, error, toasts,
                   newFindingIds, connectionLost, pollRef, seenFindingIdsRef,
                   prevPhaseRef, prevStatusRef, consecutiveErrorsRef,
                   newFindingTimerRef, toastTimers, startReqs, stopReqs, cycles,
                   issued, sessionPolled, notified, scen>>

(***************************************************************************)
(* Toast expiry and dismissal, highlight decay.                            *)
(***************************************************************************)
\* the oldest pending expiry timeout fires (all have the same duration)
ToastExpire ==
    /\ toastTimers # <<>>
    /\ toasts' = WithoutId(toasts, Head(toastTimers))
    /\ toastTimers' = Tail(toastTimers)
    /\ last' = [op |-> "ToastExpire", id |-> Head(toastTimers),
                before |-> toasts]
    /\ UNCHANGED <<remote, clock, elapsedSeconds, elapsedTimer, storage, mounted, promptContent,
                   promptLoading, target,
                   agentId, status, isRunning, logs, error, newFindingIds,
                   connectionLost, pollRef, seenFindingIdsRef, prevPhaseRef,
                   prevStatusRef, consecutiveErrorsRef, newFindingTimerRef,
                   inflight, startReqs, stopReqs, cycles, issued,
                   sessionPolled, notified, scen>>

\* prev.filter(t => t.id !== id) of dismissToast
DismissToast(id) ==
    /\ \E i \in 1..Len(toasts) : toasts[i].id = id
    /\ toasts' = WithoutId(toasts, id)
    /\ last' = [op |-> "DismissToast", id |-> id, before |-> toasts,
                timers |-> toastTimers]
    /\ UNCHANGED <<remote, clock, elapsedSeconds, elapsedTimer, storage, mounted, promptContent,
                   promptLoading, target,
                   agentId, status, isRunning, logs, error, newFindingIds,
                   connectionLost, pollRef, seenFindingIdsRef, prevPhaseRef,
                   prevStatusRef, consecutiveErrorsRef, newFindingTimerRef,
                   toastTimers, inflight, startReqs, stopReqs, cycles, issued,
                   sessionPolled, notified, scen>>

\* the highlight timeout fires: setNewFindingIds(new Set())
HighlightDecay ==
    \E tm \in newFindingTimerRef.pending :
    /\ clock >= tm.due
    /\ newFindingIds' = {}
    /\ newFindingTimerRef' = [newFindingTimerRef EXCEPT !.pending = @ \ {tm}]
    /\ last' = [op |-> "HighlightDecay", due |-> tm.due]
    /\ UNCHANGED <<remote, clock, elapsedSeconds, elapsedTimer, storage, mounted, promptContent,
                   promptLoading, target,
                   agentId, status, isRunning, logs, error, toasts,
                   connectionLost, pollRef, seenFindingIdsRef, prevPhaseRef,
                   prevStatusRef, consecutiveErrorsRef, toastTimers, inflight,
                   startReqs, stopReqs, cycles, issued, sessionPolled, notified, scen>>

(***************************************************************************)
(* Time.                                                                   *)
(***************************************************************************)
\* the one-second interval of the elapsed-time effect fires
ElapsedTick ==
    /\ elapsedTimer.armed
    /\ elapsedSeconds' = Tick(elapsedTimer.startTime)
    /\ last' = Other
    /\ UNCHANGED <<remote, clock, elapsedTimer, storage, mounted, promptContent,
                   promptLoading, target, agentId, status, isRunning, logs,
                   error, toasts, newFindingIds, connectionLost, pollRef,
                   seenFindingIdsRef, prevPhaseRef, prevStatusRef,
                   consecutiveErrorsRef, newFindingTimerRef, toastTimers,
                   inflight, startReqs, stopReqs, cycles, issued,
                   sessionPolled, notified, scen>>

\* the local clock moves forward
ClockAdvance ==
    /\ clock + ClockStep <= MaxClock
    /\ clock' = clock + ClockStep
    /\ last' = Other
    /\ UNCHANGED <<remote, elapsedSeconds, elapsedTimer, storage, mounted,
                   promptContent, promptLoading, target, agentId, status,
                   isRunning, logs, error, toasts, newFindingIds,
                   connectionLost, pollRef, seenFindingIdsRef, prevPhaseRef,
                   prevStatusRef, consecutiveErrorsRef, newFindingTimerRef,
                   toastTimers, inflight, startReqs, stopReqs, cycles, issued,
                   sessionPolled, notified, scen>>

(***************************************************************************)
(* Specification.                                                          *)
(***************************************************************************)
Next ==
    \/ Mount
    \/ PromptLoaded
    \/ PromptFailed
    \/ \E t \in Targets : SetTarget(t)
    \/ HandleStart
    \/ \E r \in startReqs, id \in AgentIds : StartResolved(r, id)
    \/ \E r \in startReqs, e \in StartErrors : StartRejected(r, e)
    \/ HandleStop
    \/ \E a \in stopReqs : StopResolved(a)
    \/ \E a \in stopReqs : StopRejected(a)
    \/ HandleClear
    \/ TimerTick
    \/ \E i \in 1..Len(inflight), s \in remote.snaps : StatusFetched(i, s)
    \/ \E i \in 1..Len(inflight) : StatusFailed(i)
    \/ \E i \in 1..Len(inflight), w \in LogWindows : LogsFetched(i, w)
    \/ \E i \in 1..Len(inflight) : LogsFailed(i)

Spec == Init /\ [][Next]_vars

(***************************************************************************)
(* The worked scenario: a fresh start against an agent that reports the    *)
(* scenario's snapshots.                                                   *)
(***************************************************************************)
InitScenario ==
    InitWith({[kind |-> "absent"]},
             {[snaps |-> Range(Scenario), cycles |-> ScenarioCycles,
               inflight |-> MaxInFlight]})

SpecScenario == InitScenario /\ [][Next]_vars

(***************************************************************************)
(* Status transitions: a restored session, later cleared and restarted,    *)
(* with every status the agent can report, one phase, no findings.         *)
(***************************************************************************)
InitStatus ==
    InitWith({[kind |-> "record", agentId |-> "a1", target |-> "t1",
               startedAt |-> "iso", status |-> "running"]},
             {[snaps |-> {[status |-> s, phase |-> "recon", findings |-> <<>>] :
                             s \in Statuses},
               cycles |-> MaxCycles, inflight |-> StatusInFlight]})

SpecStatus == InitStatus /\ [][Next]_vars

(***************************************************************************)
(* Cadence: a restored running session whose status fetches succeed or     *)
(* fail, over more cycles.                                                 *)
(***************************************************************************)
InitCadence ==
    InitWith({[kind |-> "record", agentId |-> "a1", target |-> "t1",
               startedAt |-> "iso", status |-> "running"]},
             {[snaps |-> {S1}, cycles |-> CadenceCycles,
               inflight |-> CadenceInFlight]})

SpecCadence == InitCadence /\ [][Next]_vars

(***************************************************************************)
(* Polling: a restored session, running or finished, whose agent reports   *)
(* the scenario's later snapshots in any order, fetches succeeding or       *)
(* failing.                                                                *)
(***************************************************************************)
InitPolling ==
    InitWith({[kind |-> "record", agentId |-> "a1", target |-> "t1",
               startedAt |-> "iso", status |-> st] :
                 st \in {"running", "completed"}},
             {[snaps |-> {S2, S3}, cycles |-> PollCycles,
               inflight |-> StatusInFlight]})

SpecPolling == InitPolling /\ [][Next]_vars

(***************************************************************************)
(* Restore: whatever the storage key may hold when the page mounts.        *)
(***************************************************************************)
InitRestore ==
    InitWith(StoredValues \cup PartialValues,
             {[snaps |-> {S1, S3}, cycles |-> MaxCycles,
               inflight |-> StatusInFlight]})

SpecRestore == InitRestore /\ [][Next]_vars

(***************************************************************************)
(* Findings: a restored running session whose agent reports the finding f1 *)
(* first as found and later with changed severity and title, alone or next *)
(* to one or two further findings.                                         *)
(***************************************************************************)
InitFindings ==
    InitWith({[kind |-> "record", agentId |-> "a1", target |-> "t1",
               startedAt |-> "iso", status |-> "running"]},
             {[snaps |-> {[status |-> "running", phase |-> "recon",
                           findings |-> fl] :
                             fl \in {<<F1>>, <<F1b>>, <<F1b, F2>>,
                                     <<F1b, F2, F3>>}},
               cycles |-> PollCycles, inflight |-> StatusInFlight]})

SpecFindings == InitFindings /\ [][Next]_vars

(***************************************************************************)
(* Phases: a restored running session whose agent reports any phase,       *)
(* the empty one included, in any order.                                   *)
(***************************************************************************)
InitPhases ==
    InitWith({[kind |-> "record", agentId |-> "a1", target |-> "t1",
               startedAt |-> "iso", status |-> "running"]},
             {[snaps |-> {[status |-> "running", phase |-> ph,
                           findings |-> <<>>] : ph \in Phases},
               cycles |-> PollCycles, inflight |-> StatusInFlight]})

SpecPhases == InitPhases /\ [][Next]_vars

(***************************************************************************)
(* The elapsed-time display: any number of elapsed seconds, rendered.      *)
(***************************************************************************)
FormatInputs ==
    0..MaxSeconds \cup {3599, 3600, 3661, 35999, 36000, 86399, 359999,
                        360000}

\* LiveStatsDashboard renders formatElapsed(elapsedSeconds)
RenderElapsed ==
    /\ last' = [op |-> "formatElapsed", seconds |-> elapsedSeconds,
                text |-> formatElapsed(elapsedSeconds)]
    /\ UNCHANGED <<remote, clock, elapsedSeconds, elapsedTimer, storage,
                   mounted, promptContent, promptLoading, target, agentId,
                   status, isRunning, logs, error, toasts, newFindingIds,
                   connectionLost, pollRef, seenFindingIdsRef, prevPhaseRef,
                   prevStatusRef, consecutiveErrorsRef, newFindingTimerRef,
                   toastTimers, inflight, startReqs, stopReqs, cycles, issued,
                   sessionPolled, notified, scen>>

NextFormat == RenderElapsed

InitFormat ==
    InitFrom({[kind |-> "absent"]},
             {[snaps |-> {S1}, cycles |-> 0, inflight |-> 0]}, FormatInputs)

SpecFormat == InitFormat /\ [][NextFormat]_vars

(***************************************************************************)
(* Rejected findings: a restored running session whose agent reports       *)
(* confirmed findings and, next to them, findings it has rejected.         *)
(***************************************************************************)
InitRejected ==
    InitWith({[kind |-> "record", agentId |-> "a1", target |-> "t1",
               startedAt |-> "iso", status |-> "running"]},
             {[snaps |-> {[status |-> "running", phase |-> "recon",
                           findings |-> <<F1>>, rejected_findings |-> <<>>],
                          [status |-> "running", phase |-> "recon",
                           findings |-> <<F1>>, rejected_findings |-> <<F2>>],
                          [status |-> "running", phase |-> "recon",
                           findings |-> <<F1, F3>>,
                           rejected_findings |-> <<F2>>],
                          [status |-> "running", phase |-> "recon",
                           findings |-> <<F3>>, rejected_findings |-> <<F1, F2>>]},
               cycles |-> PollCycles, inflight |-> StatusInFlight]})

SpecRejected == InitRejected /\ [][Next]_vars

(***************************************************************************)
(* Starting: no stored session, and a user who may click Start again while *)
(* a start-run request is pending.                                         *)
(***************************************************************************)
InitStart ==
    InitWith({[kind |-> "absent"]},
             {[snaps |-> {S1, S3}, cycles |-> PollCycles,
               inflight |-> StatusInFlight, starts |-> DoubleStarts]})

SpecStart == InitStart /\ [][Next]_vars

(***************************************************************************)
(* Highlight: a restored running session whose agent reports a growing     *)
(* list of findings, with the local clock, the highlight-decay timeout and *)
(* the toast timeouts and dismissals.                                      *)
(***************************************************************************)
NextHighlight ==
    \/ Mount
    \/ TimerTick
    \/ \E i \in 1..Len(inflight), s \in remote.snaps : StatusFetched(i, s)
    \/ \E i \in 1..Len(inflight), w \in LogWindows : LogsFetched(i, w)
    \/ ClockAdvance
    \/ HighlightDecay
    \/ ToastExpire
    \/ \E id \in 1..MaxPushes : DismissToast(id)

InitHighlight ==
    InitWith({[kind |-> "record", agentId |-> "a1", target |-> "t1",
               startedAt |-> "iso", status |-> "running"]},
             {[snaps |-> {[status |-> "running", phase |-> "recon",
                           findings |-> fl] :
                             fl \in {<<F1>>, <<F1, F2>>, <<F1, F2, F3>>}},
               cycles |-> HighlightCycles, inflight |-> StatusInFlight]})

SpecHighlight == InitHighlight /\ [][NextHighlight]_vars

(***************************************************************************)
(* Elapsed time: a restored session whose agent reports its start and      *)
(* completion timestamps, under a local clock that only moves forward and  *)
(* may be behind the agent's.                                              *)
(***************************************************************************)
T2 == [status |-> "completed", phase |-> "testing", findings |-> <<>>,
       started_at |-> "1970-01-01T00:00:00.500Z",
       completed_at |-> "1970-01-01T00:02:10.500Z"]
T3 == [status |-> "running", phase |-> "testing", findings |-> <<>>,
       started_at |-> "1970-01-01T00:00:00.500Z"]

NextElapsed ==
    \/ Next
    \/ ElapsedTick
    \/ ClockAdvance

InitElapsed ==
    InitWith({[kind |-> "record", agentId |-> "a1", target |-> "t1",
               startedAt |-> "iso", status |-> "running"]},
             {[snaps |-> {T2, T3}, cycles |-> PollCycles,
               inflight |-> StatusInFlight]})

SpecElapsed == InitElapsed /\ [][NextElapsed]_vars

(***************************************************************************)
(* The notification queue on its own: any handler pushing toasts, expiry   *)
(* timers firing, the user dismissing.                                     *)
(***************************************************************************)
\* what one handler run pushes: the toasts of one successful status fetch
\* (a phase change and a new finding), handleStart's toast
Bursts ==
    {PollToasts("recon", "running", {"f2"}, S2),
     <<Item(<<"Full LLM Pentest started">>, "info")>>}

PushToasts(items) ==
    /\ items # <<>>
    /\ FreshToastId(toasts, toastTimers) + Len(items) - 1 <= MaxPushes
    /\ LET st == AddToasts([q |-> toasts, tm |-> toastTimers], items)
       IN  toasts' = st.q /\ toastTimers' = st.tm
    /\ last' = [op |-> "PushToasts", before |-> toasts, pushed |-> items]
    /\ UNCHANGED <<remote, clock, elapsedSeconds, elapsedTimer, storage, mounted, promptContent,
                   promptLoading, target,
                   agentId, status, isRunning, logs, error, newFindingIds,
                   connectionLost, pollRef, seenFindingIdsRef, prevPhaseRef,
                   prevStatusRef, consecutiveErrorsRef, newFindingTimerRef,
                   inflight, startReqs, stopReqs, cycles, issued,
                   sessionPolled, notified, scen>>

NextToasts ==
    \/ \E items \in Bursts : PushToasts(items)
    \/ ToastExpire
    \/ \E id \in 1..MaxPushes : DismissToast(id)

InitToasts ==
    InitWith({[kind |-> "absent"]},
             {[snaps |-> {S1}, cycles |-> 0, inflight |-> 0]})

SpecToasts == InitToasts /\ [][NextToasts]_vars

(***************************************************************************)
(* Vocabulary of the properties.                                           *)
(***************************************************************************)
IsPhaseItem(it) == it.message[1] = "Phase: "

IsStatusItem(it) ==
    it.message[1] \in {"Pentest complete! ", "Pentest failed", "Pentest stopped"}

IsFindingItemOf(it, f) == it.message = <<Upper(f.severity), ": ", f.title>>

IsFindingItem(it) == IsFindingItemOf(it, F1) \/ IsFindingItemOf(it, F2)

PhaseItems(items) == {i \in 1..Len(items) : IsPhaseItem(items[i])}

StatusItems(items) == {i \in 1..Len(items) : IsStatusItem(items[i])}

FindingItems(items) == {i \in 1..Len(items) : IsFindingItem(items[i])}

FindingItemsOf(items, f) == {i \in 1..Len(items) : IsFindingItemOf(items[i], f)}

\* the last step applied a snapshot fetched for the agent that is current
FetchedForCurrent ==
    /\ last.op = "StatusFetched"
    /\ last.agent = last.current
    /\ ~Falsy(last.current)

\* the last step applied a snapshot fetched for an agent no longer current
FetchedStale == last.op = "StatusFetched" /\ last.agent # last.current

OwnPolls == {i \in 1..Len(inflight) : inflight[i].agentId = agentId}

(***************************************************************************)
(* Properties.                                                             *)
(***************************************************************************)

\* C1: within one session every successful status snapshot leaves the
\* seen-findings set at least as large as it was (no identifier is lost), and
\* no identifier already notified in the session is notified again.
C1_SeenSetNeverLosesAnId ==
    FetchedForCurrent =>
        /\ last.seen \subseteq seenFindingIdsRef
        /\ last.renotified = {}

\* C2: after a fresh start, the polls recon/no findings, testing/{f1},
\* completed/{f1} push nothing, then exactly one phase toast and one finding
\* toast for f1, then exactly one completed toast and no finding toast; and no
\* fetch cycle starts after the third poll.
C2_FreshStartScenario ==
    scen.on =>
        /\ scen.step >= 1 => scen.out[1] = <<>>
        /\ scen.step >= 2 =>
              /\ Cardinality(PhaseItems(scen.out[2])) = 1
              /\ Cardinality(FindingItemsOf(scen.out[2], F1)) = 1
              /\ Len(scen.out[2]) = 2
        /\ scen.step >= 3 =>
              /\ Cardinality(StatusItems(scen.out[3])) = 1
              /\ scen.out[3][1].severity = "completed"
              /\ Cardinality(FindingItems(scen.out[3])) = 0
              /\ Len(scen.out[3]) = 1
        /\ scen.step # 4

\* C3: the notification queue never holds more than MAX_TOASTS toasts, and a
\* push onto a full queue drops exactly the oldest toast, keeps the other
\* four in order and appends the new toast at the end.
C3_QueueBoundedDropsOldest ==
    /\ Len(toasts) <= MAX_TOASTS
    /\ (last.op = "PushToasts" /\ Len(last.before) = MAX_TOASTS
            /\ Len(last.pushed) = 1) =>
          /\ Len(toasts) = MAX_TOASTS
          /\ SubSeq(toasts, 1, MAX_TOASTS - 1) = Tail(last.before)
          /\ toasts[MAX_TOASTS].message = last.pushed[1].message
          /\ toasts[MAX_TOASTS].severity = last.pushed[1].severity
          /\ \A i \in 1..Len(last.before) :
                last.before[i].id # toasts[MAX_TOASTS].id

C3_PushOntoFullQueue ==
    /\ last.op = "PushToasts"
    /\ Len(last.before) = MAX_TOASTS
    /\ Len(last.pushed) = 1
    /\ Len(toasts) = MAX_TOASTS

\* C4: a successful poll pushes a status toast only when the previously
\* recorded status is running and the new status is completed, error or
\* stopped; in that case it pushes exactly the toast of the new status.
C4_StatusToastOnlyFromRunning ==
    last.op = "StatusFetched" =>
        /\ Cardinality(StatusItems(last.pushed)) <= 1
        /\ Cardinality(StatusItems(last.pushed)) = 1 <=>
              (last.prevStatus = "running" /\ status[1].status \in Terminal)

C4_CompletedAfterRunning ==
    /\ last.op = "StatusFetched"
    /\ last.prevStatus = "running"
    /\ status[1].status = "completed"
    /\ Cardinality(StatusItems(last.pushed)) = 1

\* C5: the first snapshot applied in a session, fetched for the session's
\* own agent, pushes no phase toast.
C5_FirstSnapshotNoPhaseToast ==
    (FetchedForCurrent /\ last.first) =>
        Cardinality(PhaseItems(last.pushed)) = 0

\* C6: once a snapshot fetched for the current agent reports a terminal
\* status, the poll timer is no longer armed, so no further cycle starts.
C6_TerminalCancelsTimer ==
    (FetchedForCurrent /\ status[1].status \in Terminal) => ~pollRef.armed

\* C7: when the stop request settles, resolved or rejected, the run flag is
\* inactive and no timer is left to start fetch cycles for that agent.
C7_StopDeactivatesEitherWay ==
    last.op \in {"StopResolved", "StopRejected"} =>
        /\ ~isRunning
        /\ ~(pollRef.armed /\ pollRef.agentId = last.agent)

\* C8: every fetch cycle, whether started by arming a timer or by the timer
\* firing, runs on the interval chosen from the failure count at that moment:
\* 5000 ms from 3 consecutive failures on, 1500 ms otherwise.
C8_IntervalFollowsFailureCount ==
    [][(cycles' > cycles /\ pollRef'.armed) =>
          pollRef'.interval = IF consecutiveErrorsRef' >= 3
                              THEN POLL_INTERVAL_ERROR ELSE POLL_INTERVAL]_vars

\* C9: at most one fetch cycle is in flight for the active agent.
C9_AtMostOneCycleInFlight ==
    ~Falsy(agentId) => Cardinality(OwnPolls) <= 1

\* C10: a status or log fetch that settles for an agent that is no longer
\* current changes none of the snapshot, run flag, logs, seen set, previous
\* phase, previous status, failure counter, connection flag or toast queue.
C10_StaleResultDiscarded ==
    [][(\E i \in 1..Len(inflight) :
            /\ inflight[i].agentId # agentId
            /\ \/ \E s \in remote.snaps : StatusFetched(i, s)
               \/ StatusFailed(i)
               \/ \E w \in LogWindows : LogsFetched(i, w)
               \/ LogsFailed(i))
        => UNCHANGED <<status, isRunning, logs, seenFindingIdsRef, prevPhaseRef,
                       prevStatusRef, consecutiveErrorsRef, connectionLost,
                       toasts>>]_vars

\* C11: a clear leaves the seen-findings set empty, the previous phase and
\* previous status none and the failure counter 0.
C11_ClearResetsAccumulators ==
    [][HandleClear =>
          /\ seenFindingIdsRef' = {}
          /\ prevPhaseRef' = Null
          /\ prevStatusRef' = Null
          /\ consecutiveErrorsRef' = 0]_vars

\* C12: when a start assigns the new agent and its first fetch cycle begins,
\* the seen-findings set is empty, the previous phase and previous status are
\* none and the failure counter is 0.
C12_StartBeginsFromCleanAccumulators ==
    [][(\E r \in startReqs, id \in AgentIds : StartResolved(r, id)) =>
          /\ seenFindingIdsRef' = {}
          /\ prevPhaseRef' = Null
          /\ prevStatusRef' = Null
          /\ consecutiveErrorsRef' = 0]_vars

\* C13: a failed status fetch adds one to the failure counter and leaves the
\* held snapshot, the run flag, the persisted record, the seen-findings set,
\* the previous phase, the previous status and the toast queue unchanged.
C13_FailedStatusFetchFrame ==
    [][(\E i \in 1..Len(inflight) : StatusFailed(i)) =>
          /\ consecutiveErrorsRef' = consecutiveErrorsRef + 1
          /\ UNCHANGED <<status, isRunning, storage, seenFindingIdsRef,
                         prevPhaseRef, prevStatusRef, toasts>>]_vars

C13_FailureAfterSnapshot ==
    /\ consecutiveErrorsRef = 1
    /\ status = <<S2>>
    /\ seenFindingIdsRef = {"f1"}
    /\ prevPhaseRef = "testing"
    /\ prevStatusRef = "running"
    /\ storage.kind = "record"

\* C14: whether the status fetch of a cycle resolves or rejects, the cycle
\* goes on to its log fetch; a resolved log fetch replaces the held log list
\* with the fetched window; a rejected log fetch leaves the log list, the
\* failure counter and the connection flag unchanged.
C14_LogFetchIndependentOfStatus ==
    [][\A i \in 1..Len(inflight) :
          /\ ((\E s \in remote.snaps : StatusFetched(i, s)) \/ StatusFailed(i)) =>
                /\ Len(inflight') >= i
                /\ inflight'[i] = [inflight[i] EXCEPT !.stage = "logs"]
          /\ \A w \in LogWindows : LogsFetched(i, w) => logs' = w
          /\ LogsFailed(i) =>
                UNCHANGED <<logs, consecutiveErrorsRef, connectionLost>>]_vars

C14_LogFetchAfterFailedStatus ==
    /\ consecutiveErrorsRef = 1
    /\ logs = <<"l1">>
    /\ \E i \in 1..Len(inflight) : inflight[i].stage = "logs"

\* C15: during a session the failure counter is 0 right after a successful
\* status fetch of the session, grows by one with each failed status fetch of
\* the session, and is changed by no other event.
C15_CounterCountsSessionFailures ==
    [][(~Falsy(agentId) /\ agentId' = agentId) =>
          LET ownOk == \E i \in OwnPolls, s \in remote.snaps : StatusFetched(i, s)
              ownFail == \E i \in OwnPolls : StatusFailed(i)
          IN  /\ ownOk => consecutiveErrorsRef' = 0
              /\ ownFail => consecutiveErrorsRef' = consecutiveErrorsRef + 1
              /\ (~ownOk /\ ~ownFail) =>
                    consecutiveErrorsRef' = consecutiveErrorsRef]_vars

\* C16: during a session the connection-lost flag is on once the failure
\* counter has reached 3, and it is off right after every successful status
\* fetch of the session, whichever render armed the poll that succeeded.
C16_ConnectionLostFollowsFetches ==
    /\ (~Falsy(agentId) /\ consecutiveErrorsRef >= ErrorThreshold) => connectionLost
    /\ FetchedForCurrent => ~connectionLost

\* C17: mounting raises no error; with an absent value or one that is not a
\* well-formed session record it leaves no agent and starts no polling; with
\* a well-formed record it takes the agent and the target from the record and
\* sets the run flag from the record's status.
C17_RestoreOnMount ==
    [][Mount =>
          /\ error' = Null
          /\ IF WellFormed(storage)
             THEN /\ agentId' = storage.agentId
                  /\ target' = storage.target
                  /\ isRunning' = (storage.status = "running")
             ELSE /\ Falsy(agentId')
                  /\ ~pollRef'.armed
                  /\ cycles' = cycles]_vars

\* C18: a successful status poll sets the status field of the persisted
\* record to the snapshot's status and leaves its other fields as they were;
\* when no record is persisted the poll leaves the storage as it is.
C18_PollMergesStatusIntoRecord ==
    [][\A i \in 1..Len(inflight), s \in remote.snaps :
          StatusFetched(i, s) =>
              IF storage.kind = "record"
              THEN /\ storage'.kind = "record"
                   /\ storage'.status = s.status
                   /\ storage'.agentId = storage.agentId
                   /\ storage'.target = storage.target
                   /\ storage'.startedAt = storage.startedAt
              ELSE storage' = storage]_vars

C18_RecordFollowsSnapshot ==
    /\ last.op = "StatusFetched"
    /\ status = <<S3>>
    /\ storage = [kind |-> "record", agentId |-> "a1", target |-> "t1",
                  startedAt |-> "iso", status |-> "completed"]

\* C19: the storage key holds at most one session record, and a start-run
\* request is issued only while there is no agent identifier.
C19_StartOnlyWithoutSession ==
    [][/\ storage'.kind \in {"absent", "malformed", "record"}
       /\ (\E r \in startReqs' : r \notin startReqs) => Falsy(agentId)]_vars

C19_StartIssuedAfterClear ==
    /\ startReqs # {}
    /\ Falsy(agentId)
    /\ storage.kind = "absent"
    /\ "a1" \in issued

\* C20: a rejected start-run request records an error for the user, is not
\* issued again, and leaves the agent identifier, the storage, the run flag
\* and the polling (timer, cycles) as they were.
C20_RejectedStartRecordsError ==
    [][\A r \in startReqs, e \in StartErrors :
          StartRejected(r, e) =>
              /\ ~Falsy(error')
              /\ startReqs' = startReqs \ {r}
              /\ UNCHANGED <<agentId, storage, isRunning, pollRef, cycles,
                             inflight>>]_vars

\* C21: a step that makes a non-empty agent identifier current (a resolved
\* start, or the restore of a stored record whatever its status) starts a
\* fetch cycle for that agent in the same step and arms the repeating timer.
C21_EntryPollsImmediately ==
    [][(agentId' # agentId /\ ~Falsy(agentId')) =>
          /\ pollRef'.armed
          /\ pollRef'.agentId = agentId'
          /\ cycles' = cycles + 1
          /\ inflight' = Append(inflight, [agentId |-> agentId',
                                           connectionLost |-> connectionLost',
                                           stage |-> "status"])]_vars

C21_RestoredFinishedSessionPolls ==
    /\ mounted
    /\ agentId = "a1"
    /\ storage.kind = "record" /\ storage.status = "completed"
    /\ ~isRunning
    /\ pollRef.armed
    /\ cycles = 1
    /\ Len(inflight) = 1

\* C22: a clear cancels the poll timer and removes the session record in the
\* same step, and while no agent identifier is set no fetch cycle starts and
\* no timer is armed.
C22_ClearStopsPolling ==
    [][/\ HandleClear =>
             /\ ~pollRef'.armed
             /\ storage'.kind = "absent"
             /\ cycles' = cycles
       /\ (Falsy(agentId) /\ Falsy(agentId')) =>
             /\ cycles' = cycles
             /\ ~pollRef'.armed]_vars

C22_ClearedWithFetchInFlight ==
    /\ mounted
    /\ Falsy(agentId)
    /\ "a1" \in issued
    /\ storage.kind = "absent"
    /\ ~pollRef.armed
    /\ Len(inflight) > 0
    /\ cycles < remote.cycles

\* C23: under a clock that only moves forward the elapsed seconds never
\* decrease from one state to the next while the run flag is active, and
\* whenever the run flag is inactive and the snapshot carries its start and
\* a completion timestamp the elapsed seconds are the whole seconds between
\* the two.
C23_ElapsedMonotoneThenFrozen ==
    [][/\ (isRunning /\ isRunning') => elapsedSeconds' >= elapsedSeconds
       /\ (/\ ~isRunning'
           /\ ~Falsy(StartedAt(status'))
           /\ ~Falsy(CompletedAt(status')))
              => elapsedSeconds' =
                     FloorSeconds(GetTime(CompletedAt(status'))
                                  - GetTime(StartedAt(status')))]_vars

\* C24: the elapsed seconds are a non-negative integer in every state.
C24_ElapsedNonNegative ==
    elapsedSeconds \in Nat

ToastIds(q) == {q[i].id : i \in 1..Len(q)}

\* C25: every toast in the queue has its own expiry timeout pending, the
\* timeouts are pending in push order whatever was pushed since, and a
\* timeout that fires removes the toast it was created for and no other.
C25_ExpiryRemovesOwnToast ==
    /\ ToastIds(toasts) \subseteq Range(toastTimers)
    /\ \A i, j \in 1..Len(toastTimers) :
          i < j => toastTimers[i] < toastTimers[j]
    /\ last.op = "ToastExpire" =>
          /\ last.id \notin ToastIds(toasts)
          /\ last.id \notin Range(toastTimers)
          /\ toasts = SelectSeq(last.before, LAMBDA t : t.id # last.id)

C25_OldestExpiredAmongLaterPushes ==
    /\ last.op = "ToastExpire"
    /\ Len(last.before) >= 3
    /\ last.before[1].id = last.id
    /\ Len(toasts) = Len(last.before) - 1

\* C26: a dismissal removes the toast with the given identifier and leaves
\* the other toasts and their order as they were; when the expiry timeout of
\* a toast that is no longer in the queue fires, the queue does not change.
C26_DismissRemovesOnlyThatToast ==
    /\ last.op = "DismissToast" =>
          /\ last.id \notin ToastIds(toasts)
          /\ toasts = SelectSeq(last.before, LAMBDA t : t.id # last.id)
          /\ Len(toasts) = Len(last.before) - 1
    /\ (last.op = "ToastExpire" /\ last.id \notin ToastIds(last.before)) =>
          toasts = last.before

\* no toast was ever truncated (identifiers stay within MAX_TOASTS), so the
\* toast whose timeout fired had been dismissed
C26_ExpiryAfterDismissal ==
    /\ last.op = "ToastExpire"
    /\ last.id \notin ToastIds(last.before)
    /\ last.id <= MAX_TOASTS
    /\ \A i \in 1..Len(toastTimers) : toastTimers[i] <= MAX_TOASTS
    /\ Len(toasts) >= 2

\* C27: the pushes of one handler run each add one toast: afterwards the
\* queue ends with the pushed toasts in push order, each under its own
\* identifier, preceded by the newest of the toasts that were there, and
\* only the oldest toasts beyond MAX_TOASTS are missing.
C27_BurstKeepsEveryPush ==
    last.op = "PushToasts" =>
        LET n == Len(last.pushed)
            kept == Len(toasts) - n
        IN  /\ Len(toasts) =
                  IF Len(last.before) + n <= MAX_TOASTS
                  THEN Len(last.before) + n ELSE MAX_TOASTS
            /\ \A j \in 1..n :
                  /\ toasts[kept + j].message = last.pushed[j].message
                  /\ toasts[kept + j].severity = last.pushed[j].severity
            /\ SubSeq(toasts, 1, kept) = SliceLast(last.before, kept)
            /\ Cardinality(ToastIds(toasts)) = Len(toasts)

C27_BurstOverflowsQueue ==
    /\ last.op = "PushToasts"
    /\ Len(last.pushed) = 2
    /\ Len(last.before) = MAX_TOASTS - 1
    /\ Len(toasts) = MAX_TOASTS

\* the toasts of a push list that announce a finding
FindingAnnouncements(items) ==
    {i \in 1..Len(items) : Len(items[i].message) = 3 /\ items[i].message[2] = ": "}

\* C28: a successful poll pushes exactly one finding toast per identifier of
\* the snapshot that is not in the seen set (none when the seen set is
\* empty), and none for a finding whose identifier is in the seen set,
\* whatever its severity and title have become.
C28_NoveltyByIdentifierOnly ==
    last.op = "StatusFetched" =>
        /\ \A f \in Range(status[1].findings) :
              f.id \in last.seen => FindingItemsOf(last.pushed, f) = {}
        /\ Cardinality(FindingAnnouncements(last.pushed)) =
              IF last.seen = {} THEN 0
              ELSE Cardinality(CurrentIds(status[1]) \ last.seen)

C28_SeenFindingChangedContent ==
    /\ last.op = "StatusFetched"
    /\ last.seen = {"f1"}
    /\ last.shown = <<F1>>
    /\ status[1].findings = <<F1b, F2>>
    /\ Cardinality(FindingAnnouncements(last.pushed)) = 1
    /\ FindingItemsOf(last.pushed, F2) # {}

\* C29: when a snapshot fetched for the current agent reports the status
\* error, the failure counter is zero, the snapshot is the exposed status, the
\* poll pushed the failure toast, and the poll timer is no longer armed.
C29_ErrorSnapshotStopsPolling ==
    (FetchedForCurrent /\ status[1].status = "error") =>
        /\ consecutiveErrorsRef = 0
        /\ status # <<>>
        /\ \E i \in 1..Len(last.pushed) :
              last.pushed[i] = Item(<<"Pentest failed">>, "error")
        /\ ~pollRef.armed

\* C30: a successful poll pushes a phase toast exactly when the previously
\* recorded phase is set, the snapshot's phase is non-empty and the two
\* differ; it pushes at most one, naming the snapshot's phase; afterwards the
\* previous-phase marker is the snapshot's phase (none for an empty phase).
C30_PhaseToastNeedsPreviousPhase ==
    last.op = "StatusFetched" =>
        /\ (PhaseItems(last.pushed) # {}) <=>
              /\ last.prevPhase \notin {Null, ""}
              /\ status[1].phase # ""
              /\ status[1].phase # last.prevPhase
        /\ Cardinality(PhaseItems(last.pushed)) <= 1
        /\ \A i \in PhaseItems(last.pushed) :
              last.pushed[i].message = <<"Phase: ", status[1].phase>>
        /\ prevPhaseRef = IF status[1].phase = "" THEN Null ELSE status[1].phase

C30_PhaseChangedAfterPreviousPhase ==
    /\ last.op = "StatusFetched"
    /\ last.prevPhase = "recon"
    /\ status[1].phase = "testing"
    /\ prevPhaseRef = "testing"
    /\ Cardinality(PhaseItems(last.pushed)) = 1

\* the identifiers a successful poll found new: those of the applied snapshot
\* that the seen set did not hold, when the seen set held any
DetectedNew ==
    IF last.seen = {} THEN {} ELSE CurrentIds(status[1]) \ last.seen

\* C31: a successful poll that detects new identifiers pushes one finding
\* toast per new identifier, built from that finding's severity and title and
\* carrying its severity, in the order of the snapshot, and the highlight set
\* is exactly the set of identifiers new in that poll.
C31_OneToastPerNewFinding ==
    (last.op = "StatusFetched" /\ DetectedNew # {}) =>
        LET ann == SelectSeq(last.pushed,
                             LAMBDA it : Len(it.message) = 3 /\ it.message[2] = ": ")
            new == SelectSeq(status[1].findings,
                             LAMBDA f : f.id \in DetectedNew)
        IN  /\ Len(ann) = Cardinality(DetectedNew)
            /\ Len(new) = Len(ann)
            /\ \A i \in 1..Len(ann) :
                  /\ ann[i].severity = new[i].severity
                  /\ ann[i].message = <<Upper(new[i].severity), ": ", new[i].title>>
            /\ newFindingIds = DetectedNew

C31_TwoNewFindingsInOnePoll ==
    /\ last.op = "StatusFetched"
    /\ last.seen = {"f1"}
    /\ DetectedNew = {"f2", "f3"}
    /\ newFindingIds = {"f2", "f3"}
    /\ Cardinality(FindingAnnouncements(last.pushed)) = 2

\* C32: the first snapshot applied in a session, fetched for the session's
\* own agent, detects no new finding (so it pushes no finding toast and sets
\* no highlight), and leaves the identifiers of its findings as the seen set.
C32_FirstSnapshotIsBacklog ==
    (FetchedForCurrent /\ last.first) =>
        /\ DetectedNew = {}
        /\ FindingAnnouncements(last.pushed) = {}
        /\ seenFindingIdsRef = CurrentIds(status[1])

\* the highlight set and its decay timeout agree
HighlightTimerSound ==
    /\ Cardinality(newFindingTimerRef.pending) <= 1
    /\ newFindingIds # {} => newFindingTimerRef.pending # {}
    /\ (last.op = "StatusFetched" /\ DetectedNew # {}) =>
          newFindingTimerRef.pending =
             {[id |-> newFindingTimerRef.current,
               due |-> clock + HighlightDuration]}
    /\ last.op = "HighlightDecay" =>
          /\ newFindingIds = {}
          /\ newFindingTimerRef.pending = {}
          /\ clock >= last.due

\* C33: at most one highlight-decay timeout is pending; while the highlight
\* set is non-empty one is pending, due HighlightDuration after the most
\* recent poll that detected new findings; when it fires, not before it is
\* due, the highlight set becomes empty; and a toast expiry, a dismissal or a
\* poll that detects nothing new leaves the highlight set and the timeout as
\* they were.
C33_HighlightDecaysAfterLastDetection ==
    [][/\ HighlightTimerSound'
       /\ (ToastExpire \/ \E id \in 1..MaxPushes : DismissToast(id)) =>
             UNCHANGED <<newFindingIds, newFindingTimerRef>>
       /\ (last'.op = "StatusFetched" /\ DetectedNew' = {}) =>
             UNCHANGED <<newFindingIds, newFindingTimerRef>>]_vars

C33_DetectionWhileTimerPending ==
    /\ last.op = "StatusFetched"
    /\ DetectedNew = {"f3"}
    /\ last.timer.pending # {}
    /\ \A tm \in last.timer.pending : tm.due < clock + HighlightDuration
    /\ newFindingIds = {"f3"}
    /\ toasts # <<>>

\* C34: the number of pending toast expiry timeouts never exceeds MAX_TOASTS.
C34_ExpiryTimersBounded ==
    Len(toastTimers) <= MAX_TOASTS

Digits == <<"0", "1", "2", "3", "4", "5", "6", "7", "8", "9">>

\* a number below 100 written with exactly two decimal digits
TwoDigits(n) == Digits[(n \div 10) + 1] \o Digits[(n % 10) + 1]

\* C35: the elapsed seconds s are rendered as HH:MM:SS with HH = s div 3600,
\* MM = (s mod 3600) div 60 and SS = s mod 60, each written with two digits
\* (hours of 100 and more with all their digits); 125 is rendered 00:02:05 and
\* 130 is rendered 00:02:10.
C35_FormatIsHoursMinutesSeconds ==
    last.op = "formatElapsed" =>
        LET s == last.seconds
            hh == s \div 3600
            mm == (s % 3600) \div 60
            ss == s % 60
        IN  /\ hh < 100 =>
                  last.text = TwoDigits(hh) \o ":" \o TwoDigits(mm)
                                  \o ":" \o TwoDigits(ss)
            /\ Len(last.text) = (IF hh < 100 THEN 8 ELSE 9)
            /\ s = 360000 => last.text = "100:00:00"
            /\ s = 125 => last.text = "00:02:05"
            /\ s = 130 => last.text = "00:02:10"
            /\ s = 3661 => last.text = "01:01:01"
            /\ s = 359999 => last.text = "99:59:59"

C35_Rendered125 ==
    /\ last.op = "formatElapsed"
    /\ last.seconds = 125
    /\ last.text = "00:02:05"

\* C36: right after a successful status poll the run flag is active exactly
\* when the applied snapshot's status is running or paused, whatever the flag
\* was before; a snapshot that reports running after a stop command made the
\* flag inactive makes it active again.
C36_RunFlagFollowsSnapshot ==
    last.op = "StatusFetched" =>
        (isRunning <=> status[1].status \in {"running", "paused"})

C36_RunningAgainAfterStop ==
    /\ FetchedForCurrent
    /\ last.agent = "a1"
    /\ last.prevStatus = "running"
    /\ ~last.wasRunning
    /\ status[1].status = "running"
    /\ isRunning

\* C37: fetch results are applied in the order the fetches were issued: a
\* status result is applied only while no poll invocation issued after it has
\* already had its own status result applied.
C37_ResultsAppliedInIssueOrder ==
    [][\A i \in 1..Len(inflight) :
          (\E s \in remote.snaps : StatusFetched(i, s)) =>
              \A j \in (i + 1)..Len(inflight) : inflight[j].stage = "status"]_vars

\* C38: right after a successful status poll the seen set is exactly the set
\* of identifiers of the snapshot's confirmed findings; a finding the
\* snapshot lists as rejected is not in it, and no toast announces it.
C38_SeenSetIsConfirmedIds ==
    last.op = "StatusFetched" =>
        /\ seenFindingIdsRef =
              {status[1].findings[i].id : i \in 1..Len(status[1].findings)}
        /\ \A i \in 1..Len(RejectedFindings(status[1])) :
              /\ RejectedFindings(status[1])[i].id \notin seenFindingIdsRef
              /\ FindingItemsOf(last.pushed, RejectedFindings(status[1])[i]) = {}

C38_FindingMovedToRejected ==
    /\ last.op = "StatusFetched"
    /\ last.seen = {"f1", "f3"}
    /\ status[1].findings = <<F3>>
    /\ RejectedFindings(status[1]) = <<F1, F2>>
    /\ seenFindingIdsRef = {"f3"}

\* C39: a successful poll whose snapshot has no phase pushes no phase toast
\* and leaves the previous-phase marker at none, and a successful poll that
\* finds the marker at none pushes no phase toast whatever phase its snapshot
\* reports.
C39_EmptyPhaseClearsMarker ==
    last.op = "StatusFetched" =>
        /\ status[1].phase = "" =>
              /\ PhaseItems(last.pushed) = {}
              /\ prevPhaseRef = Null
        /\ last.prevPhase = Null => PhaseItems(last.pushed) = {}

\* the session's previous snapshot had no phase, this one has
C39_PhaseAfterEmptyPhase ==
    /\ FetchedForCurrent
    /\ ~last.first
    /\ last.agent = "a1"
    /\ last.prevPhase = Null
    /\ status[1].phase = "testing"
    /\ prevPhaseRef = "testing"
    /\ toasts = <<>>

\* C40: at most one start-run request is pending at any time, and none is
\* pending once a session has its agent: a second click on Start while a
\* request is pending issues no second request.
C40_AtMostOneStartPerSession ==
    /\ Cardinality(startReqs) <= 1
    /\ ~Falsy(agentId) => startReqs = {}

====
